---- MODULE Spec2Model ----
(***************************************************************************)
(* Model of the policy store (policy.go) and the unsealers (unsealer.go)   *)
(* of vault-gatekeeper-mesos.                                              *)
(*                                                                         *)
(* The policy store is the process-wide map activePolicies.  Load and Get  *)
(* take no lock, so every map operation of Load (one delete or one         *)
(* assignment) and every map lookup of Get is a step of its own, and the   *)
(* steps of different goroutines interleave.  Go's runtime may also stop   *)
(* the process with a fatal error when a map is read or written while      *)
(* another goroutine writes it; that outcome is the variable crashed.      *)
(*                                                                         *)
(* Spec       Load and Get called one at a time.                           *)
(* SpecGet    one goroutine in Load, another in Get.                       *)
(* SpecLoad   two goroutines in Load.                                      *)
(* SpecUnseal TokenUnsealer.Token and AppIdUnsealer.Token.                 *)
(***************************************************************************)
EXTENDS Integers, Sequences, FiniteSets, TLC

\* ------------------------------------------------------------------ bounds

\* Number of Load calls a run makes.
MaxLoads == 2
\* Number of Get calls a run makes.
MaxGets == 1

\* ------------------------------------------------------------- JSON bodies

JNull == [t |-> "null"]
JStr(s) == [t |-> "str", v |-> s]
JNum(n) == [t |-> "num", v |-> n]
JArr(q) == [t |-> "arr", v |-> q]
JObj(f) == [t |-> "obj", v |-> f]
\* A body that is not a JSON document.
NotJson == [t |-> "bad"]

EmptyMap == << >>

\* A []string field: null leaves the slice nil, an array of strings fills it.
DecodeStrings(j) ==
    IF j.t = "null" THEN [ok |-> TRUE, val |-> << >>]
    ELSE IF j.t = "arr" /\ \A i \in DOMAIN j.v : j.v[i].t = "str"
         THEN [ok |-> TRUE, val |-> [i \in DOMAIN j.v |-> j.v[i].v]]
         ELSE [ok |-> FALSE, val |-> << >>]

\* An int field.
DecodeInt(j) ==
    IF j.t = "null" THEN [ok |-> TRUE, val |-> 0]
    ELSE IF j.t = "num" THEN [ok |-> TRUE, val |-> j.v]
         ELSE [ok |-> FALSE, val |-> 0]

\* ------------------------------------------------------------ policy store

\* The nil *policy.
NilPolicy == [nil |-> TRUE]

MkPolicy(pols, ttl) ==
    [nil |-> FALSE, Policies |-> pols, Meta |-> EmptyMap, Ttl |-> ttl, NumUses |-> 0]

DefaultTtl == 21600

defaultPolicy == MkPolicy(<< >>, DefaultTtl)

defaultPolicies == [k \in {"*"} |-> MkPolicy(<<"default">>, DefaultTtl)]

\* A *policy value of a JSON map: null gives the nil pointer, an object gives
\* a policy whose absent fields keep Go's zero values.
DecodePolicy(j) ==
    IF j.t = "null" THEN [ok |-> TRUE, val |-> NilPolicy]
    ELSE IF j.t = "obj"
         THEN LET f == j.v
                  pols == IF "policies" \in DOMAIN f
                          THEN DecodeStrings(f["policies"])
                          ELSE [ok |-> TRUE, val |-> << >>]
                  ttl == IF "ttl" \in DOMAIN f
                         THEN DecodeInt(f["ttl"])
                         ELSE [ok |-> TRUE, val |-> 0]
              IN  IF pols.ok /\ ttl.ok
                  THEN [ok |-> TRUE, val |-> MkPolicy(pols.val, ttl.val)]
                  ELSE [ok |-> FALSE, val |-> NilPolicy]
         ELSE [ok |-> FALSE, val |-> NilPolicy]

\* The "data" field, of type policies (map[string]*policy).
DecodePolicies(j) ==
    IF j.t = "null" THEN [ok |-> TRUE, val |-> EmptyMap]
    ELSE IF j.t = "obj" /\ \A k \in DOMAIN j.v : DecodePolicy(j.v[k]).ok
         THEN [ok |-> TRUE, val |-> [k \in DOMAIN j.v |-> DecodePolicy(j.v[k]).val]]
         ELSE [ok |-> FALSE, val |-> EmptyMap]

\* r.Body.FromJsonTo(&resp) with resp of type struct{Data policies}.
FromJsonToPolicies(body) ==
    IF body.t # "obj" THEN [ok |-> FALSE, Data |-> EmptyMap]
    ELSE IF "data" \in DOMAIN body.v
         THEN LET d == DecodePolicies(body.v["data"])
              IN  [ok |-> d.ok, Data |-> d.val]
         ELSE [ok |-> TRUE, Data |-> EmptyMap]

\* r.Body.FromJsonTo(&e) with e a vaultError: Code is not a JSON field.
FromJsonToVaultError(body, e) ==
    IF body.t # "obj" THEN [ok |-> FALSE, e |-> e]
    ELSE IF "errors" \in DOMAIN body.v
         THEN LET m == DecodeStrings(body.v["errors"])
              IN  [ok |-> m.ok, e |-> IF m.ok THEN [e EXCEPT !.Errors = m.val] ELSE e]
         ELSE [ok |-> TRUE, e |-> e]

\* --------------------------------------------------------------- errors

NoError == [type |-> "nil"]
TransportError == [type |-> "transport"]
DecodeDiagnostic == [type |-> "errorString", msg |-> "There was an error decoding policy from vault."]
vaultError(code, errs) == [type |-> "vaultError", Code |-> code, Errors |-> errs]
policyLoadError(err) == [type |-> "policyLoadError", Err |-> err]

\* A slip: the decoded messages are always overwritten.
ErrorFromResponseSynthetic(status, body) ==
    vaultError(status, <<"communication error.">>)

\* The vaultError of the default branch of a response switch.
ErrorFromResponse(status, body) ==
    LET e == vaultError(status, << >>)
        d == FromJsonToVaultError(body, e)
    IN  IF d.ok THEN d.e ELSE [e EXCEPT !.Errors = <<"communication error.">>]

\* ------------------------------------------------------------ map operations

\* A slip: the key is left in the map.
MapDeleteKeepsKey(m, k) == m

MapDelete(m, k) == [x \in DOMAIN m \ {k} |-> m[x]]

MapAssign(m, k, v) == [x \in DOMAIN m \cup {k} |-> IF x = k THEN v ELSE m[x]]

\* ------------------------------------------------------------------ inputs

Loaders == {1, 2}

\* Keys a policy document may hold, and keys Get is asked for.
DocKeys == {"a", "*"}
GetKeys == {"a", "b", "*"}

EntryAdmin == JObj([policies |-> JArr(<<JStr("admin")>>), ttl |-> JNum(3600)])
EntryWeb == JObj([policies |-> JArr(<<JStr("web")>>)])
Entries == {JNull, EntryAdmin, EntryWeb}

DataDocs == UNION {[S -> Entries] : S \in SUBSET DocKeys}

\* Bodies of a 200 answer: a policy document, a document without "data", the
\* policy saved as a string, and a body that is not JSON.
Bodies200 ==
    {JObj([data |-> JObj(d)]) : d \in DataDocs}
        \cup {JObj(EmptyMap), JObj([data |-> JStr("{}")]), NotJson}

\* Bodies of an error answer: an error envelope, an object without "errors",
\* an object whose "errors" is no list, and a body that is not JSON.
ErrorBodies ==
    {JObj([errors |-> JArr(<<JStr("permission denied")>>)]),
     JObj([errors |-> JArr(<<JStr("missing client token"), JStr("sealed")>>)]),
     JObj(EmptyMap),
     JObj([errors |-> JStr("permission denied")]),
     NotJson}

ErrorStatuses == {403, 500}

NoResponse == [kind |-> "none"]
TransportFailure == [kind |-> "transport"]
Http(status, body) == [kind |-> "http", StatusCode |-> status, Body |-> body]

\* ------------------------------------------------------------------- state

VARIABLES
    p,          \* activePolicies: the map, key -> *policy
    crashed,    \* the runtime stopped the process (fatal error on the map)
    lpc,        \* per Load call: idle, clear, fill, done
    resp,       \* per Load call: what VaultRequest.Do() gave
    data,       \* per Load call: the mapping it installs (resp.Data or defaultPolicies)
    todo,       \* per Load call: keys its running range loop has still to produce
    ret,        \* per Load call: the error returned
    pre,        \* per Load call: the store when the call began
    loads,      \* Load calls made
    gpc,        \* the Get call: idle, key, star, done, fatal
    gkey,       \* its argument
    gres,       \* its result
    gvers,      \* the whole mappings the store held or was given during the call
    gets,       \* Get calls made
    upc,        \* the Token call: idle, done
    ucall,      \* its receiver and its environment
    ureqs,      \* the requests it sent
    utoken,     \* the token it returned
    uerr        \* the error it returned

storeVars == <<p, crashed, lpc, resp, data, todo, ret, pre, loads>>
getVars == <<gpc, gkey, gres, gvers, gets>>
unsealVars == <<upc, ucall, ureqs, utoken, uerr>>

\* A Load call that is inside its clear or repopulate loop with a write to do.
WriteEnabled(l) ==
    \/ lpc[l] = "clear" /\ DOMAIN p # {}
    \/ lpc[l] = "fill" /\ todo[l] # {}

Replacing(l) == lpc[l] \in {"clear", "fill"}

\* ------------------------------------------------------------- policies.Load

\* VaultRequest.Do() returned: the part every branch of Load shares.
LoadBegin(l, r) ==
    /\ ~crashed
    /\ lpc[l] = "idle"
    /\ loads < MaxLoads
    /\ loads' = loads + 1
    /\ resp' = [resp EXCEPT ![l] = r]
    /\ pre' = [pre EXCEPT ![l] = p]

\* The call starts replacing the store by mapping d.
StartReplace(l, d) ==
    /\ lpc' = [lpc EXCEPT ![l] = "clear"]
    /\ data' = [data EXCEPT ![l] = d]
    /\ todo' = [todo EXCEPT ![l] = DOMAIN p]
    /\ gvers' = IF gpc \in {"key", "star"} THEN gvers \cup {d} ELSE gvers
    /\ UNCHANGED <<p, crashed, ret, gpc, gkey, gres, gets>>
    /\ UNCHANGED unsealVars

\* The call returns error e without touching the store.
FailWith(l, e) ==
    /\ lpc' = [lpc EXCEPT ![l] = "done"]
    /\ ret' = [ret EXCEPT ![l] = e]
    /\ UNCHANGED <<p, crashed, data, todo>>
    /\ UNCHANGED getVars
    /\ UNCHANGED unsealVars

LoadTransportError(l) ==
    /\ LoadBegin(l, TransportFailure)
    /\ FailWith(l, policyLoadError(TransportError))

Load200(l) ==
    \E body \in Bodies200 :
        /\ FromJsonToPolicies(body).ok
        /\ LoadBegin(l, Http(200, body))
        /\ StartReplace(l, FromJsonToPolicies(body).Data)

Load200DecodeError(l) ==
    \E body \in Bodies200 :
        /\ ~FromJsonToPolicies(body).ok
        /\ LoadBegin(l, Http(200, body))
        /\ FailWith(l, policyLoadError(DecodeDiagnostic))

\* A slip: 404 falls into the default branch of the switch.
Load404AsError(l) ==
    /\ LoadBegin(l, Http(404, NotJson))
    /\ FailWith(l, policyLoadError(ErrorFromResponse(404, NotJson)))

Load404(l) ==
    /\ LoadBegin(l, Http(404, NotJson))
    /\ StartReplace(l, defaultPolicies)

LoadBackendError(l) ==
    \E status \in ErrorStatuses, body \in ErrorBodies :
        /\ LoadBegin(l, Http(status, body))
        /\ FailWith(l, policyLoadError(ErrorFromResponse(status, body)))

\* One iteration of "for k, _ := range p { delete(p, k) }".
LoadDelete(l) ==
    \E k \in DOMAIN p :
        /\ ~crashed
        /\ lpc[l] = "clear"
        /\ p' = MapDelete(p, k)
        /\ todo' = [x \in Loaders |-> IF lpc[x] = "clear" THEN todo[x] \ {k} ELSE todo[x]]
        /\ UNCHANGED <<crashed, lpc, resp, data, ret, pre, loads>>
        /\ UNCHANGED getVars
        /\ UNCHANGED unsealVars
    /\ UNCHANGED unsealVars

\* The clear loop ends and the repopulate loop begins.
LoadClearDone(l) ==
    /\ ~crashed
    /\ lpc[l] = "clear"
    /\ todo[l] = {}
    /\ lpc' = [lpc EXCEPT ![l] = "fill"]
    /\ todo' = [todo EXCEPT ![l] = DOMAIN data[l]]
    /\ UNCHANGED <<p, crashed, resp, data, ret, pre, loads>>
    /\ UNCHANGED getVars
    /\ UNCHANGED unsealVars

\* One iteration of "for k, v := range resp.Data { p[k] = v }".
LoadInsert(l) ==
    \E k \in todo[l] :
        /\ ~crashed
        /\ lpc[l] = "fill"
        /\ p' = MapAssign(p, k, data[l][k])
        /\ todo' = [todo EXCEPT ![l] = todo[l] \ {k}]
        /\ UNCHANGED <<crashed, lpc, resp, data, ret, pre, loads>>
        /\ UNCHANGED getVars
        /\ UNCHANGED unsealVars
    /\ UNCHANGED unsealVars

\* "return nil" after the repopulate loop.
LoadReturn(l) ==
    /\ ~crashed
    /\ lpc[l] = "fill"
    /\ todo[l] = {}
    /\ lpc' = [lpc EXCEPT ![l] = "done"]
    /\ ret' = [ret EXCEPT ![l] = NoError]
    /\ UNCHANGED <<p, crashed, resp, data, todo, pre, loads>>
    /\ UNCHANGED getVars
    /\ UNCHANGED unsealVars

\* The caller has the result; the goroutine may call Load again.
LoadReset(l) ==
    /\ ~crashed
    /\ lpc[l] = "done"
    /\ lpc' = [lpc EXCEPT ![l] = "idle"]
    /\ resp' = [resp EXCEPT ![l] = NoResponse]
    /\ data' = [data EXCEPT ![l] = EmptyMap]
    /\ ret' = [ret EXCEPT ![l] = NoError]
    /\ pre' = [pre EXCEPT ![l] = EmptyMap]
    /\ UNCHANGED <<p, crashed, todo, loads>>
    /\ UNCHANGED getVars
    /\ UNCHANGED unsealVars

\* Two Load calls write the map at once: "fatal error: concurrent map writes".
LoadFatal(l) ==
    /\ ~crashed
    /\ WriteEnabled(l)
    /\ \E o \in Loaders \ {l} : WriteEnabled(o)
    /\ crashed' = TRUE
    /\ UNCHANGED <<p, lpc, resp, data, todo, ret, pre, loads>>
    /\ UNCHANGED getVars
    /\ UNCHANGED unsealVars

\* -------------------------------------------------------------- policies.Get

\* Get on a map no other goroutine touches during the call.
Get(m, key) ==
    IF key \in DOMAIN m THEN m[key]
    ELSE IF "*" \in DOMAIN m THEN m["*"]
    ELSE defaultPolicy

GetCall ==
    \E k \in GetKeys :
        /\ ~crashed
        /\ gpc = "idle"
        /\ gets < MaxGets
        /\ gets' = gets + 1
        /\ gpc' = "key"
        /\ gkey' = k
            /\ gvers' = IF \E l \in Loaders : Replacing(l)
                     THEN UNION {{pre[l], data[l]} : l \in {x \in Loaders : Replacing(x)}}
                     ELSE {p}
        /\ UNCHANGED gres
        /\ UNCHANGED storeVars
        /\ UNCHANGED unsealVars
    /\ UNCHANGED unsealVars

\* A slip: the wildcard entry is tried before the exact key.
GetLookupKeyWildcardFirst ==
    /\ ~crashed
    /\ gpc = "key"
    /\ IF "*" \in DOMAIN p
       THEN gres' = p["*"] /\ gpc' = "done"
       ELSE IF gkey \in DOMAIN p
            THEN gres' = p[gkey] /\ gpc' = "done"
            ELSE gpc' = "star" /\ UNCHANGED gres
    /\ UNCHANGED <<gkey, gvers, gets>>
    /\ UNCHANGED storeVars
    /\ UNCHANGED unsealVars

\* "if pol, ok := p[key]; ok { return pol }"
GetLookupKey ==
    /\ ~crashed
    /\ gpc = "key"
    /\ IF gkey \in DOMAIN p
       THEN gres' = p[gkey] /\ gpc' = "done"
       ELSE gpc' = "star" /\ UNCHANGED gres
    /\ UNCHANGED <<gkey, gvers, gets>>
    /\ UNCHANGED storeVars
    /\ UNCHANGED unsealVars

\* "else if pol, ok := p["*"]; ok { return pol } else { return defaultPolicy }"
GetLookupStar ==
    /\ ~crashed
    /\ gpc = "star"
    /\ gres' = IF "*" \in DOMAIN p THEN p["*"] ELSE defaultPolicy
    /\ gpc' = "done"
    /\ UNCHANGED <<gkey, gvers, gets>>
    /\ UNCHANGED storeVars
    /\ UNCHANGED unsealVars

\* A lookup runs while a Load writes the map:
\* "fatal error: concurrent map read and map write".
GetFatal ==
    /\ ~crashed
    /\ gpc \in {"key", "star"}
    /\ \E l \in Loaders : WriteEnabled(l)
    /\ crashed' = TRUE
    /\ gpc' = "fatal"
    /\ UNCHANGED <<gkey, gres, gvers, gets>>
    /\ UNCHANGED <<p, lpc, resp, data, todo, ret, pre, loads>>
    /\ UNCHANGED unsealVars

\* The caller has the policy; it may call Get again.
GetReturn ==
    /\ ~crashed
    /\ gpc = "done"
    /\ gpc' = "idle"
    /\ gkey' = ""
    /\ gres' = NilPolicy
    /\ gvers' = {}
    /\ UNCHANGED gets
    /\ UNCHANGED storeVars
    /\ UNCHANGED unsealVars

\* ---------------------------------------------------------------- unsealers

Tokens == {"s.root", "s.other"}

errUnknownUserIdMethod == [type |-> "errorString", msg |-> "Unknown method specified for user id."]
errUnknownHashMethod == [type |-> "errorString", msg |-> "Unknown hash method specified for user id."]
InterfaceError == [type |-> "net", msg |-> "no such network interface"]
FileError == [type |-> "os", msg |-> "no such file or directory"]
JsonError == [type |-> "json"]

\* What the self-lookup and the login endpoints may answer.
LoginBodies ==
    {JObj([auth |-> JObj([client_token |-> JStr("s.issued")])]),
     JObj(EmptyMap),
     JObj([auth |-> JStr("none")]),
     NotJson}

UnsealResponses ==
    {TransportFailure}
        \cup {Http(200, b) : b \in LoginBodies}
        \cup {Http(s, b) : s \in ErrorStatuses \cup {404}, b \in ErrorBodies}

UserIdMethods == {"mac", "file", "", "uuid"}
UserIdHashes == {"md5", "sha1", "sha256", "", "crc32"}
UserIdSalts == {"", "s"}

\* r.Body.FromJsonTo(&t) with t a vaultTokenResp.
FromJsonToTokenResp(body) ==
    IF body.t # "obj" THEN [ok |-> FALSE, ClientToken |-> ""]
    ELSE IF "auth" \notin DOMAIN body.v \/ body.v["auth"].t = "null"
         THEN [ok |-> TRUE, ClientToken |-> ""]
         ELSE IF body.v["auth"].t # "obj" THEN [ok |-> FALSE, ClientToken |-> ""]
         ELSE LET a == body.v["auth"].v
              IN  IF "client_token" \notin DOMAIN a \/ a["client_token"].t = "null"
                  THEN [ok |-> TRUE, ClientToken |-> ""]
                  ELSE IF a["client_token"].t = "str"
                       THEN [ok |-> TRUE, ClientToken |-> a["client_token"].v]
                       ELSE [ok |-> FALSE, ClientToken |-> ""]

Result(token, err, reqs) == [token |-> token, err |-> err, reqs |-> reqs]

\* A slip: the 200 branch of genericUnsealer.Token copied into TokenUnsealer.
TokenUnsealerTokenDecoding(tok, r) ==
    LET req == [Method |-> "GET", Uri |-> <<"/v1/auth/token/lookup-self">>,
                Header |-> tok, Body |-> << >>]
    IN  IF r.kind = "transport" THEN Result("", TransportError, <<req>>)
        ELSE IF r.StatusCode = 200
             THEN LET t == FromJsonToTokenResp(r.Body)
                  IN  IF t.ok THEN Result(t.ClientToken, NoError, <<req>>)
                      ELSE Result("", JsonError, <<req>>)
        ELSE Result("", ErrorFromResponse(r.StatusCode, r.Body), <<req>>)

\* TokenUnsealer.Token with AuthToken tok, the self-lookup answering r.
TokenUnsealerToken(tok, r) ==
    LET req == [Method |-> "GET", Uri |-> <<"/v1/auth/token/lookup-self">>,
                Header |-> tok, Body |-> << >>]
    IN  IF r.kind = "transport" THEN Result("", TransportError, <<req>>)
        ELSE IF r.StatusCode = 200 THEN Result(tok, NoError, <<req>>)
        ELSE Result("", ErrorFromResponse(r.StatusCode, r.Body), <<req>>)

\* genericUnsealer.Token(req), the endpoint answering r.
genericUnsealerToken(req, r) ==
    IF r.kind = "transport" THEN Result("", TransportError, <<req>>)
    ELSE IF r.StatusCode = 200
         THEN LET t == FromJsonToTokenResp(r.Body)
              IN  IF t.ok THEN Result(t.ClientToken, NoError, <<req>>)
                  ELSE Result("", JsonError, <<req>>)
         ELSE Result("", ErrorFromResponse(r.StatusCode, r.Body), <<req>>)

\* hex.EncodeToString(hasher.Sum(nil)) after hasher.Write(h): a digest, kept
\* as the algorithm and the bytes written.
HexDigest(alg, h) == <<"hex", alg, h>>

\* A slip: the hash method is checked before the user id method.
AppIdUnsealerTokenHashFirst(a, env, r) ==
    LET userId == IF a.UserIdMethod = "mac" THEN <<"02:42:ac:11:00:02">>
                  ELSE <<"file contents">>
        h == IF a.UserIdSalt # "" THEN <<a.UserIdSalt, "$">> \o userId ELSE userId
        hashed == IF a.UserIdHash = "" THEN userId ELSE HexDigest(a.UserIdHash, h)
        req == [Method |-> "POST", Uri |-> <<"/v1/auth/app-id/login/", a.AppId>>,
                Header |-> "", Body |-> [user_id |-> hashed]]
    IN  IF a.UserIdHash \notin {"md5", "sha1", "sha256", ""}
        THEN Result("", errUnknownHashMethod, << >>)
        ELSE IF a.UserIdMethod = "mac" /\ ~env.iface THEN Result("", InterfaceError, << >>)
        ELSE IF a.UserIdMethod = "file" /\ ~env.file THEN Result("", FileError, << >>)
        ELSE IF a.UserIdMethod \notin {"mac", "file"}
             THEN Result("", errUnknownUserIdMethod, << >>)
        ELSE genericUnsealerToken(req, r)

\* AppIdUnsealer.Token with receiver a; env says whether the interface and
\* the file exist; r is what the login endpoint answers when it is asked.
\* hash.Hash.Write never returns an error, so that branch is left out.
AppIdUnsealerToken(a, env, r) ==
    LET userId == IF a.UserIdMethod = "mac" THEN <<"02:42:ac:11:00:02">>
                  ELSE <<"file contents">>
        h == IF a.UserIdSalt # "" THEN <<a.UserIdSalt, "$">> \o userId ELSE userId
        hashed == IF a.UserIdHash = "" THEN userId ELSE HexDigest(a.UserIdHash, h)
        req == [Method |-> "POST", Uri |-> <<"/v1/auth/app-id/login/", a.AppId>>,
                Header |-> "", Body |-> [user_id |-> hashed]]
    IN  IF a.UserIdMethod = "mac" /\ ~env.iface THEN Result("", InterfaceError, << >>)
        ELSE IF a.UserIdMethod = "file" /\ ~env.file THEN Result("", FileError, << >>)
        ELSE IF a.UserIdMethod \notin {"mac", "file"}
             THEN Result("", errUnknownUserIdMethod, << >>)
        ELSE IF a.UserIdHash \notin {"md5", "sha1", "sha256", ""}
             THEN Result("", errUnknownHashMethod, << >>)
        ELSE genericUnsealerToken(req, r)

Returned(call, res) ==
    /\ upc' = "done"
    /\ ucall' = call
    /\ ureqs' = res.reqs
    /\ utoken' = res.token
    /\ uerr' = res.err
    /\ UNCHANGED storeVars
    /\ UNCHANGED getVars

\* A caller runs TokenUnsealer{tok}.Token().
CallTokenUnsealer ==
    \E tok \in Tokens, r \in UnsealResponses :
        /\ upc = "idle"
        /\ Returned([unsealer |-> "token", AuthToken |-> tok, answer |-> r],
                    TokenUnsealerToken(tok, r))

\* A caller runs AppIdUnsealer{...}.Token().  The endpoint's answer is part
\* of the call only when the request is sent.
CallAppIdUnsealer ==
    \E m \in UserIdMethods, hm \in UserIdHashes, salt \in UserIdSalts,
       iface \in BOOLEAN, file \in BOOLEAN, r \in UnsealResponses :
        LET a == [AppId |-> "gatekeeper", UserIdMethod |-> m,
                  UserIdHash |-> hm, UserIdSalt |-> salt]
            env == [iface |-> iface, file |-> file]
            res == AppIdUnsealerToken(a, env, r)
        IN  /\ upc = "idle"
            /\ Returned([unsealer |-> "app-id", a |-> a, env |-> env,
                         answer |-> IF res.reqs = << >> THEN NoResponse ELSE r],
                        res)

\* The caller has the result; another Token call may follow.
UnsealReset ==
    /\ upc = "done"
    /\ upc' = "idle"
    /\ ucall' = [unsealer |-> "none"]
    /\ ureqs' = << >>
    /\ utoken' = ""
    /\ uerr' = NoError
    /\ UNCHANGED storeVars
    /\ UNCHANGED getVars

\* ------------------------------------------------------------ specifications

vars == <<p, crashed, lpc, resp, data, todo, ret, pre, loads,
          gpc, gkey, gres, gvers, gets,
          upc, ucall, ureqs, utoken, uerr>>

Init ==
    /\ p = EmptyMap
    /\ crashed = FALSE
    /\ lpc = [l \in Loaders |-> "idle"]
    /\ resp = [l \in Loaders |-> NoResponse]
    /\ data = [l \in Loaders |-> EmptyMap]
    /\ todo = [l \in Loaders |-> {}]
    /\ ret = [l \in Loaders |-> NoError]
    /\ pre = [l \in Loaders |-> EmptyMap]
    /\ loads = 0
    /\ gpc = "idle"
    /\ gkey = ""
    /\ gres = NilPolicy
    /\ gvers = {}
    /\ gets = 0
    /\ upc = "idle"
    /\ ucall = [unsealer |-> "none"]
    /\ ureqs = << >>
    /\ utoken = ""
    /\ uerr = NoError

\* One caller at a time: Load and Get never overlap.
Next ==
    \/ gpc = "idle" /\ LoadTransportError(1)
    \/ gpc = "idle" /\ Load200(1)
    \/ gpc = "idle" /\ Load200DecodeError(1)
    \/ gpc = "idle" /\ Load404(1)
    \/ gpc = "idle" /\ LoadBackendError(1)
    \/ LoadDelete(1)
    \/ LoadClearDone(1)
    \/ LoadInsert(1)
    \/ LoadReturn(1)
    \/ LoadReset(1)
    \/ ~Replacing(1) /\ GetCall
    \/ GetLookupKey
    \/ GetLookupStar
    \/ GetReturn

Spec == Init /\ [][Next]_vars

\* One goroutine reloads the store while another looks policies up.
NextGet ==
    \/ LoadTransportError(1)
    \/ Load200(1)
    \/ Load200DecodeError(1)
    \/ Load404(1)
    \/ LoadBackendError(1)
    \/ LoadDelete(1)
    \/ LoadClearDone(1)
    \/ LoadInsert(1)
    \/ LoadReturn(1)
    \/ LoadReset(1)
    \/ GetCall
    \/ GetLookupKey
    \/ GetLookupStar
    \/ GetFatal
    \/ GetReturn

SpecGet == Init /\ [][NextGet]_vars

\* Two goroutines reload the store.
NextLoad ==
    \E l \in Loaders :
        \/ LoadTransportError(l)
        \/ Load200(l)
        \/ Load200DecodeError(l)
        \/ Load404(l)
        \/ LoadBackendError(l)
        \/ LoadDelete(l)
        \/ LoadClearDone(l)
        \/ LoadInsert(l)
        \/ LoadReturn(l)
        \/ LoadReset(l)
        \/ LoadFatal(l)

SpecLoad == Init /\ [][NextLoad]_vars

\* Callers of the unsealers.
NextUnseal ==
    \/ CallTokenUnsealer
    \/ CallAppIdUnsealer
    \/ UnsealReset

SpecUnseal == Init /\ [][NextUnseal]_vars

\* ------------------------------------------------------------------ claims

\* A body that decodes as an error envelope: an object whose "errors", when
\* present, is a list of strings.
ParseableEnvelope(body) ==
    /\ body.t = "obj"
    /\ "errors" \in DOMAIN body.v =>
           /\ body.v["errors"].t = "arr"
           /\ \A i \in DOMAIN body.v["errors"].v : body.v["errors"].v[i].t = "str"

\* The messages of an error envelope, in order.
EnvelopeErrors(body) ==
    IF "errors" \in DOMAIN body.v
    THEN [i \in DOMAIN body.v["errors"].v |-> body.v["errors"].v[i].v]
    ELSE << >>

\* A Load is between its clear and its repopulate, the store has no entry,
\* and both the mapping it replaces and the mapping it installs have entries.
EmptyWindow ==
    /\ p = EmptyMap
    /\ \E l \in Loaders :
           Replacing(l) /\ pre[l] # EmptyMap /\ data[l] # EmptyMap

\* C1: no lookup of a Get runs on a store emptied by a Load that replaces a
\* non-empty mapping by a non-empty mapping.
C1_NoLookupInEmptyWindow ==
    [][(GetLookupKey \/ GetLookupStar) => ~EmptyWindow]_vars

\* C2: what Get(k) returns is what Get(k) gives on one of the whole mappings
\* the store held or was given by a Load while the call ran.
C2_GetSeesWholeMapping ==
    gpc = "done" => gres \in {Get(m, gkey) : m \in gvers}

\* C3: Get returns a policy, never the nil pointer, after any sequence of
\* Load calls.
C3_GetNeverNil ==
    gpc = "done" => gres # NilPolicy

\* C4: Get(k) returns the entry of k when the store has one; else the entry
\* of "*" when the store has one; else the default policy (ttl 21600, no
\* policies).
C4_GetThreeTiers ==
    gpc = "done" =>
        /\ gkey \in DOMAIN p => gres = p[gkey]
        /\ gkey \notin DOMAIN p /\ "*" \in DOMAIN p => gres = p["*"]
        /\ gkey \notin DOMAIN p /\ "*" \notin DOMAIN p =>
               /\ gres # NilPolicy
               /\ gres.Policies = << >>
               /\ gres.Ttl = 21600
               /\ gres = defaultPolicy

\* Get fell back to the wildcard entry although the store has other keys.
C4_Witness ==
    /\ gpc = "done"
    /\ gkey = "b"
    /\ DOMAIN p = {"a", "*"}
    /\ gres = p["*"]
    /\ p["*"] # p["a"]

Load200Returned ==
    /\ lpc[1] = "done"
    /\ resp[1].kind = "http"
    /\ resp[1].StatusCode = 200
    /\ ret[1] = NoError

\* C5: after a Load that got 200 and returned nil, the store is the mapping
\* of the document: same keys, same values, no key of the store before kept,
\* and Get answers from the document alone.
C5_LoadInstallsDocument ==
    Load200Returned =>
        LET D == FromJsonToPolicies(resp[1].Body).Data
        IN  /\ DOMAIN p = DOMAIN D
            /\ \A k \in DOMAIN D : p[k] = D[k]
            /\ gpc = "done" => gres = Get(D, gkey)

\* The store held a key the document does not have, and the key is gone.
C5_Witness ==
    /\ Load200Returned
    /\ p # EmptyMap
    /\ \E k \in DOMAIN pre[1] : k \notin DOMAIN p
    /\ \E k \in DOMAIN pre[1] \cap DOMAIN p : p[k] # pre[1][k]

LoadGotErrorEnvelope ==
    /\ lpc[1] = "done"
    /\ resp[1].kind = "http"
    /\ resp[1].StatusCode \notin {200, 404}
    /\ ParseableEnvelope(resp[1].Body)

\* C6: after a Load that got a status other than 200 and 404 with a
\* parseable error envelope, Load returned a policyLoadError around a
\* vaultError with that status and the envelope's messages, and the store is
\* as it was when the call began.
C6_LoadErrorKeepsStore ==
    LoadGotErrorEnvelope =>
        /\ ret[1].type = "policyLoadError"
        /\ ret[1].Err.type = "vaultError"
        /\ ret[1].Err.Code = resp[1].StatusCode
        /\ ret[1].Err.Errors = EnvelopeErrors(resp[1].Body)
        /\ p = pre[1]

\* Such a Load on a store with entries, the envelope holding two messages.
C6_Witness ==
    /\ LoadGotErrorEnvelope
    /\ pre[1] # EmptyMap
    /\ Len(ret[1].Err.Errors) = 2

Load404Returned ==
    /\ lpc[1] = "done"
    /\ resp[1].kind = "http"
    /\ resp[1].StatusCode = 404

\* C7: after a Load that got 404, Load returned nil and the store is the one
\* entry "*" -> {policies: ["default"], ttl: 21600}.
C7_Load404InstallsDefaults ==
    Load404Returned =>
        /\ ret[1] = NoError
        /\ DOMAIN p = {"*"}
        /\ p["*"] # NilPolicy
        /\ p["*"].Policies = <<"default">>
        /\ p["*"].Ttl = 21600

\* Such a Load on a store that held another key and another wildcard entry.
C7_Witness ==
    /\ Load404Returned
    /\ "a" \in DOMAIN pre[1]
    /\ "*" \in DOMAIN pre[1]
    /\ pre[1]["*"] # p["*"]

TokenCallDone == upc = "done" /\ ucall.unsealer = "token"

\* C8 as stated: the token comes back unchanged on 200, and every other
\* outcome of the self-lookup is a vaultError with the status and messages of
\* the answer.
C8_EveryOtherOutcomeIsBackendError ==
    TokenCallDone =>
        IF ucall.answer.kind = "http" /\ ucall.answer.StatusCode = 200
        THEN utoken = ucall.AuthToken /\ uerr = NoError
        ELSE /\ uerr.type = "vaultError"
             /\ ucall.answer.kind = "http"
             /\ uerr.Code = ucall.answer.StatusCode

\* C8, amended: the token comes back unchanged on 200; every other answer is
\* a vaultError with the answer's status and the envelope's messages, or
\* "communication error." when the body does not decode; a request that got
\* no answer gives the transport error; a token is returned only on 200.
C8_TokenUnchangedOrError ==
    TokenCallDone =>
        /\ Len(ureqs) = 1
        /\ uerr = NoError => utoken = ucall.AuthToken
        /\ IF ucall.answer.kind = "transport"
           THEN utoken = "" /\ uerr = TransportError
           ELSE IF ucall.answer.StatusCode = 200
           THEN utoken = ucall.AuthToken /\ uerr = NoError
           ELSE /\ utoken = ""
                /\ uerr.type = "vaultError"
                /\ uerr.Code = ucall.answer.StatusCode
                /\ uerr.Errors = IF ParseableEnvelope(ucall.answer.Body)
                                 THEN EnvelopeErrors(ucall.answer.Body)
                                 ELSE <<"communication error.">>

\* The self-lookup answered 200 with a body that names another token.
C8_Witness ==
    /\ TokenCallDone
    /\ ucall.answer.kind = "http"
    /\ ucall.answer.StatusCode = 200
    /\ FromJsonToTokenResp(ucall.answer.Body).ClientToken # ""
    /\ utoken = ucall.AuthToken

AppIdCallDone == upc = "done" /\ ucall.unsealer = "app-id"

\* C9: AppIdUnsealer.Token with a user id method other than "mac" and "file"
\* returns errUnknownUserIdMethod and sends no request, whatever the hash
\* method, the salt and the app id.
C9_UnknownUserIdMethod ==
    AppIdCallDone /\ ucall.a.UserIdMethod \notin {"mac", "file"} =>
        /\ uerr = errUnknownUserIdMethod
        /\ utoken = ""
        /\ ureqs = << >>

\* Such a call whose hash method is unknown too.
C9_Witness ==
    /\ AppIdCallDone
    /\ ucall.a.UserIdMethod = "uuid"
    /\ ucall.a.UserIdHash = "crc32"
    /\ ucall.a.UserIdSalt = "s"
    /\ uerr = errUnknownUserIdMethod

\* C10: when the Load calls of both goroutines have returned nil, the store
\* is the mapping one of them installed.
C10_LoadsAreWholesale ==
    (\A l \in Loaders :
        /\ lpc[l] = "done"
        /\ ret[l] = NoError
        /\ resp[l].kind = "http"
        /\ resp[l].StatusCode \in {200, 404})
    => p \in {data[l] : l \in Loaders}

====
